---- MODULE Spec2Model ----
(***************************************************************************)
(* A model of pl_ranking.py: check_games (the validator), main's           *)
(* augmentation with a fake player, plackett_luce (the MM fixed point) and *)
(* main's post-processing (drop the fake player, sort, top 20, normalise). *)
(*                                                                         *)
(* A ranking (a Python dict player -> finish) is a sequence of             *)
(* <<player, finish>> entries in insertion order with distinct players; a  *)
(* corpus is a sequence of rankings.                                       *)
(*                                                                         *)
(* Strengths are exact non-negative rationals <<n, d>> in lowest terms     *)
(* (d > 0).  A value whose numerator or denominator would exceed Cap is    *)
(* the marker OVF = <<0, 0>>; an iteration that would produce OVF is not   *)
(* taken (the run is cut there, stage "capped").                           *)
(***************************************************************************)
EXTENDS Integers, Sequences, FiniteSets, TLC

VARIABLES game_results, stage, pc, gi, ui, max_rank, max_user, missing_wl,
          winners, losers, players, rankings, ws, denoms, gammas, prev_gammas, gdiff, pgdiff,
          iteration,
          increased, order, ratings

vars == <<game_results, stage, pc, gi, ui, max_rank, max_user, missing_wl,
          winners, losers, players, rankings, ws, denoms, gammas, prev_gammas, gdiff, pgdiff,
          iteration,
          increased, order, ratings>>

checkVars == <<pc, gi, ui, max_rank, max_user, missing_wl, winners, losers>>
plVars == <<rankings, ws, denoms, gammas, prev_gammas, gdiff, pgdiff, iteration,
           increased>>

-----------------------------------------------------------------------------
(* Bounds of the model *)

\* largest numerator or denominator a strength may have
Cap == 1073741824
\* total number of <<player, finish>> entries of a real corpus
MaxEntries == 2
\* total number of entries of a corpus given to check_games alone
MaxCheckEntries == 3
\* total number of entries of a corpus handed directly to plackett_luce
MaxPLEntries == 4
\* number of real competitors of a corpus made of the fake games only
MaxSynth == 3
\* number of real competitors in the estimator output given to the post-processing
MaxRated == 22

\* the real competitors and the finish positions of the corpora explored
RealPlayers == {"A", "B", "C"}
Ranks == {1, 2, 3}
PlayerSeq == <<"A", "B", "C", "D">>

-----------------------------------------------------------------------------
(* Program constants *)

\* the fake player, key 0 in main
Anchor == "0"
\* main keeps ratings[:20]
TopN == 20
\* while gdiff > 1e-9
TolDen == 1000000000
\* gdiff = 10, pgdiff = 100 before the loop
GdiffInit == 10
PgdiffInit == 100

-----------------------------------------------------------------------------
(* Exact rational arithmetic *)

RECURSIVE GCD(_, _)
GCD(a, b) == IF b = 0 THEN a ELSE GCD(b, a % b)

OVF == <<0, 0>>
IsNum(x) == x[2] > 0
Zero == <<0, 1>>
FInt(n) == <<n, 1>>
MulOK(a, b) == a = 0 \/ b = 0 \/ a <= Cap \div b
Norm(n, d) == LET g == GCD(n, d) IN <<n \div g, d \div g>>

FAdd(x, y) ==
    IF ~IsNum(x) \/ ~IsNum(y) THEN OVF
    ELSE LET g == GCD(x[2], y[2])
             a == y[2] \div g
             b == x[2] \div g
         IN  IF ~MulOK(x[1], a) \/ ~MulOK(y[1], b) \/ ~MulOK(x[2], a) THEN OVF
             ELSE IF x[1] * a > Cap - y[1] * b THEN OVF
             ELSE Norm(x[1] * a + y[1] * b, x[2] * a)

\* 1 / x, for x > 0
FInv(x) == IF ~IsNum(x) THEN OVF ELSE <<x[2], x[1]>>

\* w / x for an integer w >= 0 and x > 0
FDivInt(w, x) ==
    IF ~IsNum(x) THEN OVF
    ELSE LET g == GCD(w, x[1])
         IN  IF ~MulOK(w \div g, x[2]) THEN OVF
             ELSE <<(w \div g) * x[2], x[1] \div g>>

\* x < y, compared by integer parts and then by the inverted remainders
RECURSIVE FLess(_, _)
FLess(x, y) ==
    LET qx == x[1] \div x[2]
        qy == y[1] \div y[2]
        rx == x[1] % x[2]
        ry == y[1] % y[2]
    IN  IF qx # qy THEN qx < qy
        ELSE IF ry = 0 THEN FALSE
        ELSE IF rx = 0 THEN TRUE
        ELSE FLess(<<y[2], ry>>, <<x[2], rx>>)

\* |x - y|
FAbsDiff(x, y) ==
    IF ~IsNum(x) \/ ~IsNum(y) THEN OVF
    ELSE LET g == GCD(x[2], y[2])
             a == y[2] \div g
             b == x[2] \div g
         IN  IF ~MulOK(x[1], a) \/ ~MulOK(y[1], b) \/ ~MulOK(x[2], a) THEN OVF
             ELSE LET n1 == x[1] * a
                      n2 == y[1] * b
                  IN  Norm(IF n1 >= n2 THEN n1 - n2 ELSE n2 - n1, x[2] * a)

RECURSIVE FSum(_)
FSum(s) == IF s = <<>> THEN Zero ELSE FAdd(Head(s), FSum(Tail(s)))

\* least common multiple of the denominators of a sequence of rationals (0: too large)
RECURSIVE DenLCM(_)
DenLCM(s) ==
    IF s = <<>> THEN 1
    ELSE LET l == DenLCM(Tail(s))
             d == Head(s)[2]
         IN  IF l = 0 \/ d = 0 THEN 0
             ELSE IF ~MulOK(l \div GCD(l, d), d) THEN 0
             ELSE (l \div GCD(l, d)) * d

\* sum of the squares of the numerators of s over the common denominator l (-1: too large)
RECURSIVE NumSqSum(_, _)
NumSqSum(s, l) ==
    IF s = <<>> THEN 0
    ELSE LET rest == NumSqSum(Tail(s), l)
             m == l \div Head(s)[2]
         IN  IF rest < 0 \/ ~MulOK(Head(s)[1], m) THEN -1
             ELSE LET a == Head(s)[1] * m
                  IN  IF ~MulOK(a, a) THEN -1
                      ELSE IF a * a > Cap - rest THEN -1
                      ELSE a * a + rest

\* sum of x^2 over the rationals x of s: S / (l * l), reduced before multiplying
FSumSq(s) ==
    LET l == DenLCM(s)
    IN  IF l = 0 THEN OVF
        ELSE LET S == NumSqSum(s, l)
             IN  IF S < 0 THEN OVF
                 ELSE LET g1 == GCD(S, l)
                          S1 == S \div g1
                          l1 == l \div g1
                          g2 == GCD(S1, l)
                          l2 == l \div g2
                      IN  IF ~MulOK(l1, l2) THEN OVF
                          ELSE Norm(S1 \div g2, l1 * l2)

-----------------------------------------------------------------------------
(* Dicts as sequences of entries *)

Users(ranking) == {ranking[i][1] : i \in 1..Len(ranking)}
\* ranking[user]
Rank(ranking, user) ==
    ranking[CHOOSE i \in 1..Len(ranking) : ranking[i][1] = user][2]

RECURSIVE SeqOfSet(_)
SeqOfSet(S) == IF S = {} THEN <<>>
               ELSE LET x == CHOOSE y \in S : TRUE IN <<x>> \o SeqOfSet(S \ {x})

Perms(S) == {s \in [1..Cardinality(S) -> S] : \A i, j \in 1..Cardinality(S) : i # j => s[i] # s[j]}

-----------------------------------------------------------------------------
(* check_games *)

\* pc is a dict user -> [win, loss]: a sequence of <<user, win, loss>> in insertion order
Recorded(tab) == {tab[i][1] : i \in 1..Len(tab)}

\* ClearFlag that forgets the assignment when the user is new: setdefault only
ClearFlagNewKept(tab, user, k) ==
    IF user \in Recorded(tab)
    THEN [i \in 1..Len(tab) |->
            IF tab[i][1] = user THEN [tab[i] EXCEPT ![k + 2] = 0] ELSE tab[i]]
    ELSE Append(tab, <<user, 1, 1>>)

\* pc.setdefault(user, [1, 1])[k] = 0, k = 0 (win) or 1 (loss)
ClearFlag(tab, user, k) ==
    LET t == IF user \in Recorded(tab) THEN tab ELSE Append(tab, <<user, 1, 1>>)
    IN  [i \in 1..Len(t) |->
            IF t[i][1] = user THEN [t[i] EXCEPT ![k + 2] = 0] ELSE t[i]]

\* the body of "for user, rank in game.items()": the new <<pc, max_rank, max_user>>
ScanEntry(tab, mrank, muser, user, rank) ==
    LET t1 == IF rank > 1 THEN ClearFlag(tab, user, 1) ELSE tab
    IN  IF rank > mrank
        THEN <<IF muser # "" THEN ClearFlag(t1, muser, 0) ELSE t1, rank, user>>
        ELSE IF rank < mrank
        THEN <<ClearFlag(t1, user, 0), mrank, muser>>
        ELSE <<t1, mrank, muser>>

RECURSIVE FlagSum(_)
\* missing_wl = sum(w+l for w, l in pc.values())
FlagSum(tab) == IF tab = <<>> THEN 0 ELSE Head(tab)[2] + Head(tab)[3] + FlagSum(Tail(tab))

\* one entry of one game; max_rank and max_user start at 0 and None in each game
CheckGamesStep ==
    /\ stage = "check"
    /\ gi <= Len(game_results)
    /\ LET game == game_results[gi]
           r == ScanEntry(pc, IF ui = 1 THEN 0 ELSE max_rank,
                          IF ui = 1 THEN "" ELSE max_user, game[ui][1], game[ui][2])
       IN  /\ pc' = r[1]
           /\ max_rank' = r[2]
           /\ max_user' = r[3]
           /\ IF ui < Len(game)
              THEN ui' = ui + 1 /\ gi' = gi
              ELSE ui' = 1 /\ gi' = gi + 1
    /\ UNCHANGED <<game_results, stage, missing_wl, winners, losers, players, plVars,
                   order, ratings>>

\* the players with no loss (winners) and with no win (losers), in the order of pc
NoLoss(tab) == SelectSeq(tab, LAMBDA e : e[2] = 0 /\ e[3] = 1)
NoWin(tab) == SelectSeq(tab, LAMBDA e : e[2] = 1 /\ e[3] = 0)
NamesOf(tab) == [i \in 1..Len(tab) |-> tab[i][1]]

\* lines 60-76 of check_games and main's prints; (None, None) is two empty lists
\* with missing_wl = 0
CheckGamesReport ==
    /\ stage = "check"
    /\ gi > Len(game_results)
    /\ missing_wl' = FlagSum(pc)
    /\ IF FlagSum(pc) > 0 /\ \E i \in 1..Len(pc) : pc[i][2] = 1 /\ pc[i][3] = 1
       THEN /\ stage' = "Exception"
            /\ UNCHANGED <<winners, losers>>
       ELSE /\ stage' = "augment"
            /\ winners' = NamesOf(NoLoss(pc))
            /\ losers' = NamesOf(NoWin(pc))
    /\ UNCHANGED <<game_results, pc, gi, ui, max_rank, max_user, players, plVars,
                   order, ratings>>

-----------------------------------------------------------------------------
(* main: the fake player *)

\* fake_games with the second append left out
RECURSIVE FakeGamesOneWay(_)
FakeGamesOneWay(ps) ==
    IF ps = <<>> THEN <<>>
    ELSE << <<<<Anchor, 1>>, <<Head(ps), 2>>>> >> \o FakeGamesOneWay(Tail(ps))

\* fake_games with the second append after the loop, for the last player only
RECURSIVE FakeGamesDedent(_)
FakeGamesDedent(ps) ==
    IF ps = <<>> THEN <<>>
    ELSE IF Len(ps) = 1
    THEN << <<<<Anchor, 1>>, <<Head(ps), 2>>>>, <<<<Anchor, 2>>, <<Head(ps), 1>>>> >>
    ELSE << <<<<Anchor, 1>>, <<Head(ps), 2>>>> >> \o FakeGamesDedent(Tail(ps))

\* fake_games for the players of sequence ps
RECURSIVE FakeGames(_)
FakeGames(ps) ==
    IF ps = <<>> THEN <<>>
    ELSE << <<<<Anchor, 1>>, <<Head(ps), 2>>>>, <<<<Anchor, 2>>, <<Head(ps), 1>>>> >>
         \o FakeGames(Tail(ps))

-----------------------------------------------------------------------------
(* plackett_luce *)

\* players = set(key for ranking in rankings for key in ranking.keys())
PlayersOf(rks) == UNION {Users(rks[i]) : i \in 1..Len(rks)}

\* Wins with finish <= len(ranking)
WinsLeq(rks, p) ==
    Cardinality({i \in 1..Len(rks) :
                    p \in Users(rks[i]) /\ Rank(rks[i], p) <= Len(rks[i])})

\* ws[p]: Counter of the names with finish < len(ranking)
Wins(rks, p) ==
    Cardinality({i \in 1..Len(rks) :
                    p \in Users(rks[i]) /\ Rank(rks[i], p) < Len(rks[i])})

\* InnerSumFrom with ranking[finisher] > place
RECURSIVE InnerSumFromStrict(_, _, _, _)
InnerSumFromStrict(g, ranking, place, i) ==
    IF i > Len(ranking) THEN Zero
    ELSE IF ranking[i][2] > place
         THEN FAdd(g[ranking[i][1]], InnerSumFromStrict(g, ranking, place, i + 1))
         ELSE InnerSumFromStrict(g, ranking, place, i + 1)

\* sum(gammas[finisher] for finisher in ranking if ranking[finisher] >= place)
RECURSIVE InnerSumFrom(_, _, _, _)
InnerSumFrom(g, ranking, place, i) ==
    IF i > Len(ranking) THEN Zero
    ELSE IF ranking[i][2] >= place
         THEN FAdd(g[ranking[i][1]], InnerSumFrom(g, ranking, place, i + 1))
         ELSE InnerSumFrom(g, ranking, place, i + 1)

InnerSum(g, ranking, place) == InnerSumFrom(g, ranking, place, 1)

\* the inner sums of one ranking, one per entry (place in ranking.values())
RECURSIVE RankingSums(_, _, _)
RankingSums(g, ranking, j) ==
    IF j > Len(ranking) THEN <<>>
    ELSE <<InnerSum(g, ranking, ranking[j][2])>> \o RankingSums(g, ranking, j + 1)

\* the inner sums of every ranking
RECURSIVE InnerSums(_, _)
InnerSums(g, rks) ==
    IF rks = <<>> THEN <<>>
    ELSE <<RankingSums(g, Head(rks), 1)>> \o InnerSums(g, Tail(rks))

\* PlaceTerm with ranking[player] <= place
PlaceTermLeq(sums, rks, player, i, j) ==
    IF player \notin Users(rks[i]) \/ Rank(rks[i], player) <= rks[i][j][2]
    THEN Zero
    ELSE FInv(sums[i][j])

\* the term of entry j of ranking i in denoms[player]:
\* 0 if player not in ranking or ranking[player] < place else 1 / sum(...)
PlaceTerm(sums, rks, player, i, j) ==
    IF player \notin Users(rks[i]) \/ Rank(rks[i], player) < rks[i][j][2]
    THEN Zero
    ELSE FInv(sums[i][j])

\* denoms[player]
Denom(sums, rks, player) ==
    FSum([i \in 1..Len(rks) |->
            FSum([j \in 1..Len(rks[i]) |-> PlaceTerm(sums, rks, player, i, j)])])

\* denoms = {player : ... for player in players}
RECURSIVE Denoms(_, _, _)
Denoms(ps, sums, rks) ==
    IF ps = {} THEN <<>>
    ELSE LET p == CHOOSE q \in ps : TRUE
         IN  (p :> Denom(sums, rks, p)) @@ Denoms(ps \ {p}, sums, rks)

\* a division 1 / sum(...) with a zero sum is evaluated while denoms is built
ZeroInnerSum(sums) ==
    \E i \in 1..Len(sums) : \E j \in 1..Len(sums[i]) : sums[i][j] = Zero

\* gammas = {player : ws[player] / denoms[player] for player in players}
NewGammas(dn, w) == [p \in DOMAIN dn |-> FDivInt(w[p], dn[p])]

\* gdiff = sum((gamma - _gammas[player]) ** 2 ...)
GammaDiff(g2, g) ==
    LET ps == SeqOfSet(DOMAIN g)
    IN  FSumSq([i \in 1..Len(ps) |-> FAbsDiff(g2[ps[i]], g[ps[i]])])

Tol == <<1, TolDen>>

\* LoopCond with the tolerance 1e-8
LoopCondLoose(gd) == FLess(<<1, TolDen \div 10>>, gd)

\* while gdiff > 1e-9
LoopCond(gd) == FLess(Tol, gd)

\* lines 18-24
PLBegin ==
    /\ stage = "pl_call"
    /\ LET ps == PlayersOf(rankings)
       IN  /\ ws' = [p \in ps |-> Wins(rankings, p)]
           /\ gammas' = [p \in ps |-> <<1, Cardinality(ps)>>]
           /\ prev_gammas' = [p \in ps |-> Zero]
    /\ gdiff' = FInt(GdiffInit)
    /\ pgdiff' = FInt(PgdiffInit)
    /\ iteration' = 0
    /\ increased' = FALSE
    /\ stage' = "loop"
    /\ UNCHANGED <<game_results, checkVars, players, rankings, denoms, order, ratings>>

\* one pass of the loop body, lines 26-35; increased: the "Gamma difference
\* increased" report was printed
PLIterate ==
    /\ stage = "loop"
    /\ LoopCond(gdiff)
    /\ LET sums == InnerSums(gammas, rankings)
           dn == Denoms(DOMAIN gammas, sums, rankings)
           g2 == NewGammas(dn, ws)
           gd == GammaDiff(g2, gammas)
       IN  IF ZeroInnerSum(sums) \/ (\E p \in DOMAIN dn : dn[p] = Zero)
           THEN /\ stage' = "ZeroDivisionError"
                /\ UNCHANGED <<denoms, gammas, prev_gammas, gdiff, pgdiff, iteration,
                               increased>>
           ELSE IF (\E p \in DOMAIN dn : ~IsNum(dn[p]) \/ ~IsNum(g2[p])) \/ ~IsNum(gd)
           THEN /\ stage' = "capped"
                /\ UNCHANGED <<denoms, gammas, prev_gammas, gdiff, pgdiff, iteration,
                               increased>>
           ELSE /\ denoms' = dn
                /\ prev_gammas' = gammas
                /\ gammas' = g2
                /\ pgdiff' = gdiff
                /\ gdiff' = gd
                /\ iteration' = iteration + 1
                /\ increased' = FLess(gdiff, gd)
                /\ stage' = "loop"
    /\ UNCHANGED <<game_results, checkVars, players, rankings, ws, order, ratings>>

\* return gammas; the dict's key order is the iteration order of the set players
PLReturn ==
    /\ stage = "loop"
    /\ ~LoopCond(gdiff)
    /\ stage' = "returned"
    /\ order' \in Perms(DOMAIN gammas)
    /\ UNCHANGED <<game_results, checkVars, players, plVars, ratings>>

-----------------------------------------------------------------------------
(* main *)

\* lines 125-136: the fake games are appended in the iteration order of the set
\* players, and the corpus is handed to plackett_luce
MainAugment ==
    /\ stage = "augment"
    /\ players' = PlayersOf(game_results)
    /\ \E ord \in Perms(PlayersOf(game_results)) :
           game_results' = game_results \o FakeGames(ord)
    /\ rankings' = game_results'
    /\ stage' = "pl_call"
    /\ UNCHANGED <<checkVars, ws, denoms, gammas, prev_gammas, gdiff, pgdiff,
                   iteration, increased, order, ratings>>

\* x / y for rationals, y > 0
FDiv(x, y) ==
    IF ~IsNum(x) \/ ~IsNum(y) THEN OVF
    ELSE LET g1 == GCD(x[1], y[1])
             g2 == GCD(y[2], x[2])
         IN  IF ~MulOK(x[1] \div g1, y[2] \div g2) \/ ~MulOK(x[2] \div g2, y[1] \div g1)
             THEN OVF
             ELSE <<(x[1] \div g1) * (y[2] \div g2), (x[2] \div g2) * (y[1] \div g1)>>

\* list(ratings.items()) after del ratings[0]: <<player, value>> in dict order
Items(g, ord) ==
    LET keep == SelectSeq(ord, LAMBDA p : p # Anchor)
    IN  [i \in 1..Len(keep) |-> <<keep[i], g[keep[i]]>>]

\* ratings.sort(key=lambda x: -x[1]): a stable sort, largest value first
RECURSIVE Insert(_, _)
Insert(sorted, item) ==
    IF sorted = <<>> THEN <<item>>
    ELSE IF FLess(Head(sorted)[2], item[2])
         THEN <<item>> \o sorted
         ELSE <<Head(sorted)>> \o Insert(Tail(sorted), item)

\* SortRatings with key x[1]: smallest value first
RECURSIVE SortRatingsAscending(_)
SortRatingsAscending(items) ==
    IF items = <<>> THEN <<>>
    ELSE LET rest == SortRatingsAscending(SubSeq(items, 1, Len(items) - 1))
             item == items[Len(items)]
             n == Cardinality({i \in 1..Len(rest) : ~FLess(item[2], rest[i][2])})
         IN  SubSeq(rest, 1, n) \o <<item>> \o SubSeq(rest, n + 1, Len(rest))

RECURSIVE SortRatings(_)
SortRatings(items) ==
    IF items = <<>> THEN <<>>
    ELSE Insert(SortRatings(SubSeq(items, 1, Len(items) - 1)), items[Len(items)])

\* ratings[:20]
Top(items) == SubSeq(items, 1, IF Len(items) < TopN THEN Len(items) ELSE TopN)

\* normalization_constant = sum(value for p, value in ratings)
NormalizationConstant(items) == FSum([i \in 1..Len(items) |-> items[i][2]])

\* normalize_ratings
normalize_ratings(items) ==
    [i \in 1..Len(items) |-> <<items[i][1], FDiv(items[i][2], NormalizationConstant(items))>>]

\* lines 138-146
PostProcess ==
    /\ stage = "returned"
    /\ IF Anchor \notin DOMAIN gammas
       THEN stage' = "KeyError" /\ UNCHANGED ratings
       ELSE LET top == Top(SortRatings(Items(gammas, order)))
            IN  IF top # <<>> /\ NormalizationConstant(top) = Zero
                THEN stage' = "ZeroDivisionError" /\ UNCHANGED ratings
                ELSE stage' = "done" /\ ratings' = normalize_ratings(top)
    /\ UNCHANGED <<game_results, checkVars, players, plVars, order>>

-----------------------------------------------------------------------------
(* plackett_luce called on a corpus: any small corpus, the fake games alone, or a *)
(* corpus with its fake games as main builds it *)

RankingsOver(ps, n) ==
    {r \in [1..n -> ps \X Ranks] : \A i, j \in 1..n : i < j => r[i][1] # r[j][1]}

\* rankings whose entries are in the order of PlayerSeq
Sorted(r) ==
    \A i, j \in 1..Len(r) : i < j =>
        (CHOOSE k \in 1..Len(PlayerSeq) : PlayerSeq[k] = r[i][1])
          < (CHOOSE k \in 1..Len(PlayerSeq) : PlayerSeq[k] = r[j][1])

\* a number that orders the rankings
RECURSIVE Key(_)
Key(r) ==
    IF r = <<>> THEN 0
    ELSE (CHOOSE k \in 1..Len(PlayerSeq) : PlayerSeq[k] = Head(r)[1]) * 4 + Head(r)[2]
         + 32 * Key(Tail(r))

RECURSIVE Corpora(_, _)
\* the corpora of rankings from R with at most n entries in all
Corpora(R, n) ==
    {<<>>} \cup UNION {{<<r>> \o c : c \in Corpora(R, n - Len(r))} :
                          r \in {x \in R : Len(x) <= n}}

RECURSIVE SortedCorpora(_, _, _)
\* those whose rankings are in the order of Key, the keys at least k
SortedCorpora(R, n, k) ==
    {<<>>} \cup UNION {{<<r>> \o c : c \in SortedCorpora(R, n - Len(r), Key(r))} :
                          r \in {x \in R : Len(x) <= n /\ Key(x) >= k}}

AllRankings == UNION {RankingsOver(RealPlayers, n) : n \in 1..Cardinality(RealPlayers)}

\* nothing computed yet
InitIdle ==
    /\ pc = <<>>
    /\ gi = 1 /\ ui = 1
    /\ max_rank = 0 /\ max_user = ""
    /\ missing_wl = 0
    /\ winners = <<>> /\ losers = <<>>
    /\ players = {}
    /\ ws = <<>> /\ denoms = <<>> /\ prev_gammas = <<>>
    /\ gdiff = Zero /\ pgdiff = Zero
    /\ iteration = 0
    /\ increased = FALSE
    /\ ratings = <<>>

InitPL ==
    /\ InitIdle
    /\ stage = "pl_call"
    /\ game_results = <<>>
    /\ gammas = <<>>
    /\ order = <<>>
    /\ rankings \in (SortedCorpora({r \in AllRankings : Sorted(r)}, MaxPLEntries, 0)
                         \ {<<>>})
                      \cup {FakeGames(SubSeq(PlayerSeq, 1, k)) : k \in 1..MaxSynth}
                      \cup {c \o FakeGames(SeqOfSet(PlayersOf(c))) :
                               c \in SortedCorpora({r \in AllRankings : Sorted(r)},
                                                   MaxEntries, 0) \ {<<>>}}

NextPL == PLBegin \/ PLIterate \/ PLReturn

SpecPL == InitPL /\ [][NextPL]_vars

-----------------------------------------------------------------------------
(* main run on a corpus of real games *)

Init ==
    /\ InitIdle
    /\ stage = "check"
    /\ rankings = <<>>
    /\ gammas = <<>>
    /\ order = <<>>
    /\ game_results \in SortedCorpora({r \in AllRankings : Sorted(r)}, MaxEntries, 0)

Next ==
    \/ CheckGamesStep
    \/ CheckGamesReport
    \/ MainAugment
    \/ PLBegin
    \/ PLIterate
    \/ PLReturn
    \/ PostProcess

Spec == Init /\ [][Next]_vars

-----------------------------------------------------------------------------
(* the post-processing of main on an estimator output *)

RatedSeq == <<"P01", "P02", "P03", "P04", "P05", "P06", "P07", "P08", "P09", "P10",
              "P11", "P12", "P13", "P14", "P15", "P16", "P17", "P18", "P19", "P20",
              "P21", "P22", "P23", "P24">>

\* strengths 1/2, except at most two competitors with strength 1/4 or 3/4, the
\* fake player first or last in the dict
InitPost ==
    /\ InitIdle
    /\ stage = "returned"
    /\ game_results = <<>>
    /\ rankings = <<>>
    /\ \E k \in 1..MaxRated : \E a, b \in 1..k : \E va, vb \in 1..3 : \E first \in BOOLEAN :
          /\ a <= b
          /\ (a = b) => (va = vb)
          /\ gammas = [p \in {RatedSeq[i] : i \in 1..k} \cup {Anchor} |->
                          IF p = RatedSeq[a] THEN Norm(va, 4)
                          ELSE IF p = RatedSeq[b] THEN Norm(vb, 4)
                          ELSE Norm(2, 4)]
          /\ order = IF first THEN <<Anchor>> \o SubSeq(RatedSeq, 1, k)
                     ELSE SubSeq(RatedSeq, 1, k) \o <<Anchor>>

NextPost == PostProcess

SpecPost == InitPost /\ [][NextPost]_vars

-----------------------------------------------------------------------------
(* check_games called on a corpus, the entries of a ranking in any order *)

InitCheck ==
    /\ InitIdle
    /\ stage = "check"
    /\ rankings = <<>>
    /\ gammas = <<>>
    /\ order = <<>>
    /\ game_results \in Corpora(AllRankings, MaxCheckEntries)

NextCheck == CheckGamesStep \/ CheckGamesReport

SpecCheck == InitCheck /\ [][NextCheck]_vars

-----------------------------------------------------------------------------
(* Properties of check_games *)

InSeq(x, s) == \E i \in 1..Len(s) : s[i] = x

\* user finished strictly better than some rival in some ranking of corpus
HasWin(corpus, user) ==
    \E i \in 1..Len(corpus) : \E a, b \in 1..Len(corpus[i]) :
        corpus[i][a][1] = user /\ corpus[i][a][2] < corpus[i][b][2]

\* user finished strictly worse than some rival in some ranking of corpus
HasLoss(corpus, user) ==
    \E i \in 1..Len(corpus) : \E a, b \in 1..Len(corpus[i]) :
        corpus[i][a][1] = user /\ corpus[i][a][2] > corpus[i][b][2]

\* C2: when every ranking has at least 2 participants, check_games reports a
\* competitor as having no win (the list losers) exactly when no ranking has him
\* strictly better than a rival, and as having no loss (the list winners) exactly
\* when no ranking has him strictly worse than a rival
C2_ReportExact ==
    (stage = "augment" /\ \A i \in 1..Len(game_results) : Len(game_results[i]) >= 2)
    => \A u \in PlayersOf(game_results) :
          /\ InSeq(u, losers) <=> ~HasWin(game_results, u)
          /\ InSeq(u, winners) <=> ~HasLoss(game_results, u)

\* C10: after any prefix of the scan every recorded competitor has the missing-win
\* or the missing-loss flag cleared and is recorded once; the contradiction error
\* is never raised, and the two lists returned are disjoint and without repetition
C10_NeverBothFlags ==
    /\ \A i \in 1..Len(pc) : pc[i][2] = 0 \/ pc[i][3] = 0
    /\ \A i, j \in 1..Len(pc) : i # j => pc[i][1] # pc[j][1]
    /\ stage # "Exception"
    /\ \A i \in 1..Len(winners) : ~InSeq(winners[i], losers)
    /\ \A i, j \in 1..Len(winners) : i # j => winners[i] # winners[j]
    /\ \A i, j \in 1..Len(losers) : i # j => losers[i] # losers[j]

\* check_games has returned a competitor with no loss and one with no win, and
\* recorded a third with both
C10_Witness ==
    /\ stage = "augment"
    /\ winners # <<>>
    /\ losers # <<>>
    /\ \E i \in 1..Len(pc) : pc[i][2] = 0 /\ pc[i][3] = 0

-----------------------------------------------------------------------------
(* Properties of main's fake games *)

\* the rankings of corpus that contain both a and b
Shared(corpus, a, b) == {i \in 1..Len(corpus) : {a, b} \subseteq Users(corpus[i])}

\* C1: the corpus handed to plackett_luce holds, for each real competitor p, exactly
\* two rankings with the fake player, {0: 1, p: 2} and {0: 2, p: 1}, after the real
\* games; so every competitor, the fake one included, has a ranking in which he did
\* not finish last (win count >= 1) and one in which he did not finish first
C1_FakeGamesPerPlayer ==
    (stage \notin {"check", "augment", "Exception"} /\ players # {})
    => /\ \A p \in players :
            /\ Cardinality(Shared(rankings, Anchor, p)) = 2
            /\ \A i \in 1..Len(rankings) :
                  Anchor \in Users(rankings[i]) => Len(rankings[i]) = 2
            /\ \E i, j \in Shared(rankings, Anchor, p) :
                  /\ Rank(rankings[i], Anchor) = 1 /\ Rank(rankings[i], p) = 2
                  /\ Rank(rankings[j], Anchor) = 2 /\ Rank(rankings[j], p) = 1
       /\ PlayersOf(rankings) = players \cup {Anchor}
       /\ \A i \in 1..Len(rankings) :
             Anchor \in Users(rankings[i]) <=> i > Len(rankings) - 2 * Cardinality(players)
       /\ \A q \in PlayersOf(rankings) :
             /\ \E i \in 1..Len(rankings) : \E a, b \in 1..Len(rankings[i]) :
                   rankings[i][a][1] = q /\ rankings[i][a][2] < rankings[i][b][2]
             /\ \E i \in 1..Len(rankings) : \E a, b \in 1..Len(rankings[i]) :
                   rankings[i][a][1] = q /\ rankings[i][a][2] > rankings[i][b][2]
             /\ stage # "pl_call" => ws[q] >= 1

\* plackett_luce iterates on a corpus of two real competitors whose real games
\* include a single-participant ranking
C1_Witness ==
    /\ stage = "loop"
    /\ iteration >= 1
    /\ Cardinality(players) = 2
    /\ \E i \in 1..Len(rankings) : Len(rankings[i]) = 1
    /\ \A q \in DOMAIN ws : ws[q] >= 1

\* C3: a ranking with exactly one participant never reaches the estimator: every
\* ranking of the corpus handed to plackett_luce has at least 2 participants
C3_SingleParticipantRejected ==
    \A i \in 1..Len(rankings) : Len(rankings[i]) >= 2

-----------------------------------------------------------------------------
(* Properties of plackett_luce *)

Running == stage \in {"loop", "returned", "capped", "ZeroDivisionError"}

\* C4: the loop runs at least once and returns, with the gammas of the last pass,
\* exactly after the first pass whose gdiff is <= 1e-9; a pass whose gdiff is larger
\* than the one before is only reported: the loop goes on and gammas are updated
\* as in any pass
C4_ReturnAtTolerance ==
    [][/\ (stage' = "returned" /\ stage # "returned")
            => /\ stage = "loop"
               /\ iteration >= 1
               /\ ~FLess(Tol, gdiff)
               /\ gammas' = gammas /\ iteration' = iteration
       /\ (stage = "loop" /\ iteration >= 1 /\ ~FLess(Tol, gdiff)) => stage' = "returned"
       /\ (stage = "loop" /\ iteration' = iteration + 1)
            => /\ FLess(Tol, gdiff)
               /\ stage' = "loop"
               /\ increased' = FLess(gdiff, gdiff')
               /\ pgdiff' = gdiff
               /\ gammas' = NewGammas(denoms', ws)
               /\ gdiff' = GammaDiff(gammas', gammas)
      ]_vars

\* plackett_luce has returned after more than one pass
C4_Witness ==
    /\ stage = "returned"
    /\ iteration >= 2
    /\ DOMAIN gammas # {}
    /\ ~FLess(Tol, gdiff)
    /\ FLess(Tol, pgdiff)

\* a corpus made of rankings with the fake player only
Synthetic(rks) == rks # <<>> /\ \A i \in 1..Len(rks) : Anchor \in Users(rks[i])

\* C6: on a corpus made of the fake games alone all real competitors have equal
\* strengths after every pass and in the result
C6_SyntheticSymmetry ==
    (Synthetic(rankings) /\ Running)
    => \A p, q \in DOMAIN gammas \ {Anchor} : gammas[p] = gammas[q]

\* plackett_luce has returned on the fake games of three real competitors
C6_Witness ==
    /\ Synthetic(rankings)
    /\ stage = "returned"
    /\ Cardinality(DOMAIN gammas \ {Anchor}) = 3
    /\ iteration >= 2

\* a corpus with the two fake games of each of its real competitors
Augmented(rks) ==
    /\ Anchor \in PlayersOf(rks)
    /\ \A p \in PlayersOf(rks) \ {Anchor} : \E i, j \in 1..Len(rks) :
          /\ Users(rks[i]) = {Anchor, p} /\ Users(rks[j]) = {Anchor, p}
          /\ Rank(rks[i], Anchor) = 1 /\ Rank(rks[i], p) = 2
          /\ Rank(rks[j], Anchor) = 2 /\ Rank(rks[j], p) = 1

\* the largest finish position of a ranking
MaxPlace(ranking) ==
    CHOOSE m \in {ranking[j][2] : j \in 1..Len(ranking)} :
        \A j \in 1..Len(ranking) : ranking[j][2] <= m

\* some ranking whose worst-placed participants all have win count 0
BottomAllZero ==
    \E i \in 1..Len(rankings) : \A j \in 1..Len(rankings[i]) :
        rankings[i][j][2] = MaxPlace(rankings[i]) => ws[rankings[i][j][1]] = 0

\* on a corpus with the fake games gammas has one strictly positive entry per
\* competitor at the start and after every pass, and no sum or denominator is zero
C7_AugmentedPositive ==
    (Augmented(rankings) /\ Running)
    => /\ stage # "ZeroDivisionError"
       /\ DOMAIN gammas = PlayersOf(rankings)
       /\ \A p \in DOMAIN gammas : gammas[p][1] > 0 /\ gammas[p][2] > 0
       /\ iteration >= 1 => \A p \in DOMAIN denoms : denoms[p][1] > 0 /\ denoms[p][2] > 0
       /\ \A i \in 1..Len(rankings) : \A j \in 1..Len(rankings[i]) :
             InnerSum(gammas, rankings[i], rankings[i][j][2])[1] > 0

\* C7 (amended): C7_AugmentedPositive; and a competitor with win count 0 has
\* strength 0 from the first pass on, the run fails with a division by zero exactly
\* when a second pass is run and some ranking's worst-placed participants all have
\* win count 0, and it fails in that second pass
C7_ZeroWinStrength ==
    /\ C7_AugmentedPositive
    /\ (Running /\ iteration >= 1)
         => \A p \in DOMAIN ws : (ws[p] = 0 <=> gammas[p] = Zero) /\ IsNum(gammas[p])
    /\ stage = "ZeroDivisionError" => iteration = 1 /\ BottomAllZero
    /\ (stage \in {"loop", "returned"} /\ iteration >= 2) => ~BottomAllZero

\* plackett_luce has made two passes on a real game with its fake games
C7_Witness ==
    /\ Augmented(rankings)
    /\ stage = "loop"
    /\ iteration >= 2
    /\ \E i \in 1..Len(rankings) : Anchor \notin Users(rankings[i])
    /\ \A p \in DOMAIN gammas : gammas[p][1] > 0

\* C7 as claimed: C7_AugmentedPositive; and when some competitor has win count 0
\* the run fails with a division by zero: it completes no second pass (the first
\* to sum zero strengths) and does not return
C7_ZeroWinFails ==
    /\ C7_AugmentedPositive
    /\ (stage \in {"loop", "returned"} /\ \E p \in DOMAIN ws : ws[p] = 0)
         => iteration <= 1 /\ stage # "returned"

\* x is the value y, when y could be computed
Agree(x, y) == ~IsNum(y) \/ x = y

\* the entries of ranking with a place that player reached
ReachedEntries(ranking, player) ==
    SelectSeq([j \in 1..Len(ranking) |-> ranking[j][2]],
              LAMBDA place : Rank(ranking, player) >= place)

\* the distinct places of ranking that player reached
ReachedPlaces(ranking, player) ==
    SeqOfSet({ranking[j][2] : j \in {k \in 1..Len(ranking) :
                                        Rank(ranking, player) >= ranking[k][2]}})

\* the sum over the rankings with player of 1 / (sum of g over position >= place),
\* place over places(ranking, player)
DenomOver(places(_, _), g, rks, player) ==
    FSum([i \in 1..Len(rks) |->
            IF player \notin Users(rks[i]) THEN Zero
            ELSE LET pl == places(rks[i], player)
                 IN  FSum([k \in 1..Len(pl) |-> FInv(InnerSum(g, rks[i], pl[k]))])])

\* C8 as claimed: a ranking with p contributes to denoms[p] one term for each
\* distinct finish position of the ranking that p reached, a shared position once
C8_DistinctPlaces ==
    (stage \in {"loop", "returned"} /\ iteration >= 1)
    => \A p \in DOMAIN denoms :
          Agree(denoms[p], DenomOver(ReachedPlaces, prev_gammas, rankings, p))

\* C8 (amended): a ranking with p contributes to denoms[p] one term
\* 1 / (sum of gamma[q] over position >= place) for each participant's place that
\* p reached (a position shared by m participants m times), nothing for the
\* places p did not reach, and a ranking without p nothing
C8_PlacePerParticipant ==
    (stage \in {"loop", "returned"} /\ iteration >= 1)
    => /\ DOMAIN denoms = PlayersOf(rankings)
       /\ \A p \in DOMAIN denoms :
             Agree(denoms[p], DenomOver(ReachedEntries, prev_gammas, rankings, p))

\* a pass has been made on a corpus with a ranking of three in which two
\* participants share a place
C8_Witness ==
    /\ stage = "loop"
    /\ iteration >= 1
    /\ \E i \in 1..Len(rankings) : \E a, b \in 1..Len(rankings[i]) :
          a # b /\ rankings[i][a][2] = rankings[i][b][2] /\ Len(rankings[i]) = 3
    /\ \E p \in DOMAIN denoms :
          /\ IsNum(DenomOver(ReachedEntries, prev_gammas, rankings, p))
          /\ denoms[p] # DenomOver(ReachedPlaces, prev_gammas, rankings, p)

\* the rankings of corpus in which some participant finished strictly worse than p
NotLast(corpus, p) ==
    {i \in 1..Len(corpus) : \E a, b \in 1..Len(corpus[i]) :
        corpus[i][a][1] = p /\ corpus[i][a][2] < corpus[i][b][2]}

\* the rankings of corpus in which p's finish position is below the number of
\* participants
BelowSize(corpus, p) ==
    {i \in 1..Len(corpus) : \E a \in 1..Len(corpus[i]) :
        corpus[i][a][1] = p /\ corpus[i][a][2] < Len(corpus[i])}

\* C9 as claimed: the win count of p is the number of rankings in which p did not
\* finish last, in every pass
C9_NotLastCount ==
    Running => \A p \in PlayersOf(rankings) : ws[p] = Cardinality(NotLast(rankings, p))

\* C9 (amended): the win count of p is the number of rankings in which p's finish
\* position is strictly less than the number of participants of the ranking,
\* computed before the loop and the same in every pass
C9_BelowSizeCount ==
    Running => /\ DOMAIN ws = PlayersOf(rankings)
               /\ \A p \in DOMAIN ws : ws[p] = Cardinality(BelowSize(rankings, p))

\* two passes have been made with a win count that is not the number of rankings
\* in which the competitor did not finish last
C9_Witness ==
    /\ stage = "loop"
    /\ iteration >= 2
    /\ \E p \in DOMAIN ws : ws[p] # Cardinality(NotLast(rankings, p))

-----------------------------------------------------------------------------
(* Properties of the reported ratings *)

\* C5: the reported list has min(20, K) entries, none for the fake player and no
\* competitor twice, in non-increasing order of strength; a competitor left out
\* is no stronger than a reported one; the reported values are the strengths of
\* the reported competitors divided by their sum, and sum to 1
C5_TopTwentyNormalized ==
    stage = "done"
    => LET real == DOMAIN gammas \ {Anchor}
           n == Len(ratings)
           kept == {ratings[i][1] : i \in 1..n}
           total == FSum([i \in 1..n |-> gammas[ratings[i][1]]])
       IN  /\ n = IF Cardinality(real) < 20 THEN Cardinality(real) ELSE 20
           /\ kept \subseteq real
           /\ Cardinality(kept) = n
           /\ \A i, j \in 1..n : i < j => ~FLess(ratings[i][2], ratings[j][2])
           /\ \A p \in real \ kept : \A q \in kept : ~FLess(gammas[q], gammas[p])
           /\ \A i \in 1..n : /\ IsNum(ratings[i][2])
                              /\ ratings[i][2] = FDiv(gammas[ratings[i][1]], total)
           /\ FSum([i \in 1..n |-> ratings[i][2]]) = <<1, 1>>

\* more than 20 real competitors of different strengths were rated and a
\* competitor later in the dict than a left-out one is reported
C5_Witness ==
    /\ stage = "done"
    /\ Cardinality(DOMAIN gammas \ {Anchor}) > 20
    /\ Len(ratings) = 20
    /\ ratings[1][2] # ratings[20][2]
    /\ \E i \in 1..Len(order) : \E j \in 1..Len(order) :
          /\ i < j
          /\ order[i] # Anchor
          /\ \A k \in 1..Len(ratings) : ratings[k][1] # order[i]
          /\ \E k \in 1..Len(ratings) : ratings[k][1] = order[j]

====
